---- MODULE Spec2Model ----
\* A model of the SQL Query Tracer (src/query_tracer.py) and of the agent
\* driver script (src/test_agent.py).
\*
\* Texts are sequences of one-character strings, so that strip, upper, lower,
\* startswith, "in" and join are computed character by character.  The em dash
\* of the source's placeholder is written as the one-character token "EMDASH".
\* Instants are integers (seconds); the padding BUFFER_SEC is in the same unit.
EXTENDS Integers, Sequences, FiniteSets, TLC

VARIABLES
    \* ---- classifier run (classify / is_system applied to one text)
    sql_text,      \* the statement text handed to classify
    clf,           \* the triple classify returned, once it was called
    \* ---- one run of the dashboard script
    pc,            \* position of the script run
    minutes,       \* sidebar slider "Time window (min)"
    sess_conn,     \* st.session_state["_conn"]: "conn" or "None"
    trace_file,    \* trace_log.json: NoFile or the list of its entries
    df,            \* the data frame of statements (rows in index order)
    trace_log,     \* the variable trace_log: unset, None or a list of entries
    cutoff,        \* the cutoff instant of the grouped view, once computed
    groups,        \* group_df of every loop iteration: the row indices, in order
    matched_indices,
    unmatched,     \* the rows of the "unmatched" section (row indices)
    flat,          \* the rows listed by the flat view (row indices)
    view,          \* "none", "grouped" or "flat"
    \* ---- one run of the driver script
    dpc,           \* position of main / run_query
    qi,            \* the loop variable i of main (1-based query number)
    agent,         \* "absent", "created" or "deleted"
    deletions,     \* number of delete_agent calls made
    status,        \* run.status of the current run
    iteration,     \* the polling loop's counter
    stdout,        \* per finished query: "response" or "none"
    sent_after_delete,  \* a run was created for an agent already deleted
    \* ---- the connections of a session (get_conn over the script's reruns)
    conn_created,  \* number of connections _new_connection has returned
    conn_alive,    \* the handles on which SELECT 1 would succeed
    conn_close_called,  \* the handles on which close() was called
    conn_closed,   \* the handles on which close() completed
    conn_calls,    \* number of get_conn calls made
    conn_ret       \* what the last get_conn call returned, or "raised"

vars == <<sql_text, clf, pc, minutes, sess_conn, trace_file, df, trace_log,
          cutoff, groups, matched_indices, unmatched, flat, view,
          dpc, qi, agent, deletions, status, iteration, stdout,
          sent_after_delete, conn_created, conn_alive, conn_close_called,
          conn_closed, conn_calls, conn_ret>>

connVars == <<conn_created, conn_alive, conn_close_called, conn_closed,
              conn_calls, conn_ret>>

clfVars == <<sql_text, clf>>
dashVars == <<pc, minutes, sess_conn, df, trace_log, cutoff, groups,
              matched_indices, unmatched, flat, view>>
drvVars == <<dpc, qi, agent, deletions, status, iteration, stdout,
             sent_after_delete>>

NoValue == "NoValue"

\* trace_log.json: absent, or present with a list of entries
NoFile == [exists |-> FALSE, data |-> <<>>]
FileOf(entries) == [exists |-> TRUE, data |-> entries]

\* the values of the variable trace_log: not yet assigned, None, or a list
LogUnset == [kind |-> "unset", data |-> <<>>]
LogNone == [kind |-> "None", data |-> <<>>]
LogOf(entries) == [kind |-> "list", data |-> entries]

\* the variable cutoff before and after its assignment
CutoffUnset == [set |-> FALSE, at |-> 0]
CutoffAt(t) == [set |-> TRUE, at |-> t]

\* the value of clf before and after the call of classify
NotClassified == [called |-> FALSE, value |-> <<>>]
ClassifiedAs(triple) == [called |-> TRUE, value |-> triple]

\* ------------------------------------------------------------------
\* Characters and text operations
\* ------------------------------------------------------------------
LowerLetters == <<"a","b","c","d","e","f","g","h","i","j","k","l","m",
                  "n","o","p","q","r","s","t","u","v","w","x","y","z">>
UpperLetters == <<"A","B","C","D","E","F","G","H","I","J","K","L","M",
                  "N","O","P","Q","R","S","T","U","V","W","X","Y","Z">>

Whitespace == {" ", "\t", "\n"}

ToUpper ==
    [c \in {LowerLetters[i] : i \in 1..26} |->
        UpperLetters[CHOOSE i \in 1..26 : LowerLetters[i] = c]]
ToLower ==
    [c \in {UpperLetters[i] : i \in 1..26} |->
        LowerLetters[CHOOSE i \in 1..26 : UpperLetters[i] = c]]

UpperChar(c) == IF c \in DOMAIN ToUpper THEN ToUpper[c] ELSE c
LowerChar(c) == IF c \in DOMAIN ToLower THEN ToLower[c] ELSE c

\* str.upper() and str.lower()
Upper(s) == [i \in 1..Len(s) |-> UpperChar(s[i])]
Lower(s) == [i \in 1..Len(s) |-> LowerChar(s[i])]

\* str.strip(): leading and trailing whitespace removed
Strip(s) ==
    LET solid == {i \in 1..Len(s) : s[i] \notin Whitespace}
    IN  IF solid = {} THEN <<>>
        ELSE LET lo == CHOOSE i \in solid : \A j \in solid : i <= j
                 hi == CHOOSE i \in solid : \A j \in solid : i >= j
             IN  SubSeq(s, lo, hi)

\* str.startswith(p)
StartsWith(s, p) == Len(s) >= Len(p) /\ SubSeq(s, 1, Len(p)) = p

\* p in s
Contains(s, p) ==
    \E i \in 0..(Len(s) - Len(p)) : SubSeq(s, i + 1, i + Len(p)) = p

\* sep.join(parts)
RECURSIVE Join(_, _)
Join(parts, sep) ==
    IF parts = <<>> THEN <<>>
    ELSE IF Len(parts) = 1 THEN parts[1]
    ELSE parts[1] \o sep \o Join(Tail(parts), sep)

CommaSpace == <<",", " ">>
Dash == <<"EMDASH">>

\* ------------------------------------------------------------------
\* The classifier
\* ------------------------------------------------------------------
Keywords == << <<"S","E","L","E","C","T">>,
               <<"I","N","S","E","R","T">>,
               <<"U","P","D","A","T","E">>,
               <<"D","E","L","E","T","E">>,
               <<"E","X","E","C">> >>
KeywordName == <<"SELECT", "INSERT", "UPDATE", "DELETE", "EXEC">>

\* TABLE_ENTITY, in its declared order: the keys, and the value of each key
TableNames == << <<"P","r","o","d","u","c","t","s">>,
                 <<"C","a","t","e","g","o","r","i","e","s">>,
                 <<"C","u","s","t","o","m","e","r","s">>,
                 <<"O","r","d","e","r","s">>,
                 <<"O","r","d","e","r","I","t","e","m","s">> >>
EntityNames == << <<"P","r","o","d","u","c","t">>,
                  <<"C","a","t","e","g","o","r","y">>,
                  <<"C","u","s","t","o","m","e","r">>,
                  <<"O","r","d","e","r">>,
                  <<"O","r","d","e","r","I","t","e","m">> >>

\* mcp_map of classify
McpVerb(qtype) ==
    CASE qtype = "SELECT" -> <<"r","e","a","d","_","r","e","c","o","r","d","s">>
      [] qtype = "INSERT" -> <<"c","r","e","a","t","e","_","r","e","c","o","r","d">>
      [] qtype = "UPDATE" -> <<"u","p","d","a","t","e","_","r","e","c","o","r","d">>
      [] qtype = "DELETE" -> <<"d","e","l","e","t","e","_","r","e","c","o","r","d">>
McpKinds == {"SELECT", "INSERT", "UPDATE", "DELETE"}
DescribeEntities == <<"d","e","s","c","r","i","b","e","_",
                      "e","n","t","i","t","i","e","s","?">>

\* a variant of the keyword loop that tests containment ("kw in upper")
\* where the source tests the prefix
QueryTypeFirstContained(sql) ==
    LET upper == Upper(Strip(sql))
        hits == {k \in 1..Len(Keywords) : Contains(upper, Keywords[k])}
    IN  IF hits = {} THEN "OTHER"
        ELSE KeywordName[CHOOSE k \in hits : \A j \in hits : k <= j]

\* the keyword loop of classify: the first keyword, in order, that the
\* stripped upper-cased text starts with, else "OTHER"
QueryType(sql) ==
    LET upper == Upper(Strip(sql))
        hits == {k \in 1..Len(Keywords) : StartsWith(upper, Keywords[k])}
    IN  IF hits = {} THEN "OTHER"
        ELSE KeywordName[CHOOSE k \in hits : \A j \in hits : k <= j]

\* a variant of the table scan that compares the names in the case written
MatchedTablesCaseSensitive(sql) ==
    SelectSeq([k \in 1..Len(TableNames) |-> k],
              LAMBDA k : Contains(sql, TableNames[k]))

\* tables = [t for t in TABLE_ENTITY if t.lower() in sql_text.lower()],
\* as the positions of the matching keys in declared order
MatchedTables(sql) ==
    LET low == Lower(sql)
    IN  SelectSeq([k \in 1..Len(TableNames) |-> k],
                  LAMBDA k : Contains(low, Lower(TableNames[k])))

\* ", ".join(tables) or the placeholder
TablesLabel(sql) ==
    LET matched == MatchedTables(sql)
        tables == [i \in 1..Len(matched) |-> TableNames[matched[i]]]
        joined == Join(tables, CommaSpace)
    IN  IF joined = <<>> THEN Dash ELSE joined

\* a variant of the operation label that gives the ambiguous marker to every
\* statement without an entity, whatever its kind
McpToolMarkerForAll(sql) ==
    LET qtype == QueryType(sql)
        matched == MatchedTables(sql)
        entities == [i \in 1..Len(matched) |-> EntityNames[matched[i]]]
    IN  IF entities # <<>> /\ qtype \in McpKinds
        THEN McpVerb(qtype) \o <<"(">> \o Join(entities, CommaSpace) \o <<")">>
        ELSE IF entities = <<>> THEN DescribeEntities ELSE Dash

\* lines 153-164: entities, mcp_map and the operation label
McpTool(sql) ==
    LET qtype == QueryType(sql)
        matched == MatchedTables(sql)
        entities == [i \in 1..Len(matched) |-> EntityNames[matched[i]]]
    IN  IF entities # <<>> /\ qtype \in McpKinds
        THEN McpVerb(qtype) \o <<"(">> \o Join(entities, CommaSpace) \o <<")">>
        ELSE IF qtype = "SELECT" THEN DescribeEntities ELSE Dash

classify(sql) == <<QueryType(sql), TablesLabel(sql), McpTool(sql)>>

\* marks of is_system
SystemMarks == { <<"s","y","s",".">>,
                 <<"i","n","f","o","r","m","a","t","i","o","n","_",
                   "s","c","h","e","m","a">>,
                 <<"q","u","e","r","y","_","s","t","o","r","e">>,
                 <<"d","m","_","e","x","e","c">>,
                 <<"s","p","_","r","e","s","e","t","_",
                   "c","o","n","n","e","c","t","i","o","n">>,
                 <<"@","@">>,
                 <<"s","p","_","t","r","a","c","e">>,
                 <<"x","p","_">> }

is_system(text) ==
    LET low == Lower(text)
    IN  \E m \in SystemMarks : Contains(low, m)

\* ------------------------------------------------------------------
\* Classifier run: classify applied to one text
\* ------------------------------------------------------------------
MaxFrags == 3

\* the pieces the input texts are made of
Frags == { <<" ">>, <<"\n">>,
           <<"S","e","l","e","c","t">>,
           <<"I","N","S","E","R","T">>,
           <<"u","p","d","a","t","e">>,
           <<"D","E","L","E","T","E">>,
           <<"e","x","e","c">>,
           <<"x">>,
           <<"P","R","O","D","U","C","T","S">>,
           <<"o","r","d","e","r","I","t","e","m","s">> }

RECURSIVE TextsUpTo(_)
TextsUpTo(n) ==
    IF n = 0 THEN {<<>>}
    ELSE TextsUpTo(n - 1) \cup {t \o f : t \in TextsUpTo(n - 1), f \in Frags}

\* ------------------------------------------------------------------
\* The dashboard script (one run of query_tracer.py)
\* ------------------------------------------------------------------
BUFFER_SEC == 30

MaxStmts == 2
MaxEntries == 2

\* the instants the inputs are drawn from
StmtTimes == {69, 70, 100, 160, 161}
EntryTimes == {100, 130}
Nows == {430}
MinuteChoices == {5, 10}

SqlUser == <<"S","E","L","E","C","T"," ","*"," ","F","R","O","M"," ",
             "P","r","o","d","u","c","t","s">>
SqlReset == <<"E","X","E","C"," ","s","p","_","r","e","s","e","t","_",
              "c","o","n","n","e","c","t","i","o","n">>
RowTexts == {SqlUser, SqlReset}

\* the sidebar's choices
SelTypesChoices == { {"SELECT", "INSERT", "UPDATE", "DELETE"}, {}, {"EXEC"} }
SelTablesChoices == { <<>>, << TableNames[4] >>, << TableNames[1] >> }

RawRows == [query_sql_text : RowTexts, last_execution_time : StmtTimes]

RECURSIVE SeqsUpTo(_, _)
SeqsUpTo(S, n) ==
    IF n = 0 THEN {<<>>}
    ELSE SeqsUpTo(S, n - 1) \cup
         {Append(q, x) : q \in {r \in SeqsUpTo(S, n - 1) : Len(r) = n - 1}, x \in S}

\* what load_query_store / load_dmv return: at most the TOP rows, ordered by
\* last_execution_time DESC
DataFrames ==
    {d \in SeqsUpTo(RawRows, MaxStmts) :
        \A i \in 1..(Len(d) - 1) :
            d[i].last_execution_time >= d[i + 1].last_execution_time}

\* the entries of trace_log.json, start_utc and end_utc parsed to instants
Intervals == {iv \in EntryTimes \X EntryTimes : iv[1] <= iv[2]}
TraceFiles ==
    {NoFile} \cup
    { FileOf([i \in 1..Len(q) |->
                [index |-> i, start_dt |-> q[i][1], end_dt |-> q[i][2]]]) :
        q \in SeqsUpTo(Intervals, MaxEntries) }

\* a variant of the emptiness test that never reports an empty frame
EmptyNever(frame) == FALSE

\* df.empty
Empty(frame) == frame = <<>>

\* lines 388-392: the classifier's columns added to every row
\* classify and is_system tabulated over the texts the rows are drawn from
ClassifyOf == [t \in RowTexts |-> classify(t)]
IsSystemOf == [t \in RowTexts |-> is_system(t)]

ClassifiedRow(row) ==
    LET x == ClassifyOf[row.query_sql_text]
    IN  [query_sql_text |-> row.query_sql_text,
         last_execution_time |-> row.last_execution_time,
         query_type |-> x[1],
         tables |-> x[2],
         mcp_tool |-> x[3],
         is_sys |-> IsSystemOf[row.query_sql_text]]

Classified(frame) == [k \in 1..Len(frame) |-> ClassifiedRow(frame[k])]

\* lines 394-400: the sidebar filters, then reset_index(drop=True)
FilterFrame(frame, show_sys, sel_types, sel_tables) ==
    SelectSeq(frame,
        LAMBDA row :
            /\ (~show_sys => ~row.is_sys)
            /\ (sel_types # {} => row.query_type \in sel_types)
            /\ (sel_tables # <<>> =>
                    \E j \in 1..Len(sel_tables) : Contains(row.tables, sel_tables[j])))

\* load_trace_log
load_trace_log(file) == IF ~file.exists THEN LogNone ELSE LogOf(file.data)

\* "if trace_log" of a list or None
Truthy(log) == log.kind = "list" /\ log.data # <<>>

\* a variant of the cutoff filter that also drops the entries ending at the
\* cutoff instant itself
CutoffFilterStrict(log, c) == SelectSeq(log, LAMBDA e : e.end_dt > c)

\* line 471
CutoffFilter(log, c) == SelectSeq(log, LAMBDA e : e.end_dt >= c)

\* lines 477-478
WindowStart(entry) == entry.start_dt - BUFFER_SEC
WindowEnd(entry) == entry.end_dt + BUFFER_SEC

\* a variant of the mask with exclusive bounds
MaskStrict(frame, entry) ==
    {k \in 1..Len(frame) :
        /\ frame[k].last_execution_time > WindowStart(entry)
        /\ frame[k].last_execution_time < WindowEnd(entry)}

\* line 481, with exec_ts = last_execution_time as a UTC instant
Mask(frame, entry) ==
    {k \in 1..Len(frame) :
        /\ frame[k].last_execution_time >= WindowStart(entry)
        /\ frame[k].last_execution_time <= WindowEnd(entry)}

\* a variant of the selection that lists the selected rows oldest first
GroupDfOldestFirst(frame, entry) ==
    LET sel == SelectSeq([k \in 1..Len(frame) |-> k],
                         LAMBDA k : k \in Mask(frame, entry))
    IN  [j \in 1..Len(sel) |-> sel[Len(sel) + 1 - j]]

\* line 482: df[mask], the selected rows in the frame's order
GroupDf(frame, entry) ==
    SelectSeq([k \in 1..Len(frame) |-> k], LAMBDA k : k \in Mask(frame, entry))

SeqRange(q) == {q[i] : i \in 1..Len(q)}

\* a variant of the loop in which a row claimed by an earlier entry is
\* withheld from the later ones (first match wins)
GroupingLoopFirstMatch(frame, log) ==
    [i \in 1..Len(log) |->
        SelectSeq([k \in 1..Len(frame) |-> k],
                  LAMBDA k : /\ k \in Mask(frame, log[i])
                             /\ \A j \in 1..(i - 1) : k \notin Mask(frame, log[j]))]

\* lines 475-483: one group per entry of the (filtered) log
GroupingLoop(frame, log) == [i \in 1..Len(log) |-> GroupDf(frame, log[i])]

\* a variant that keeps only the indices of the last group (an assignment
\* where the source updates the set)
MatchedIndicesLast(gs) == IF gs = <<>> THEN {} ELSE SeqRange(gs[Len(gs)])

\* lines 473, 483: the indices collected over the loop
MatchedIndices(gs) == UNION {SeqRange(gs[i]) : i \in 1..Len(gs)}

\* a variant of the complement that lost its negation
UnmatchedInverted(frame, matched) ==
    SelectSeq([k \in 1..Len(frame) |-> k], LAMBDA k : k \in matched)

\* line 527
Unmatched(frame, matched) ==
    SelectSeq([k \in 1..Len(frame) |-> k], LAMBDA k : k \notin matched)

\* a variant of the flat listing that runs from the last row to the first
FlatRowsReversed(frame) == [k \in 1..Len(frame) |-> Len(frame) + 1 - k]

\* line 553: the flat view lists every row in index order
FlatRows(frame) == [k \in 1..Len(frame) |-> k]

\* ------------------------------------------------------------------
\* The driver script (test_agent.py)
\* ------------------------------------------------------------------
NumTestQueries == 5
max_iterations == 120

ActiveStatuses == {"queued", "in_progress", "requires_action"}
RunStatuses == ActiveStatuses \cup {"completed", "failed", "cancelled", "expired"}

\* ------------------------------------------------------------------
\* Idle values of the parts a specification leaves alone
\* ------------------------------------------------------------------
ClfIdle == sql_text = <<>> /\ clf = NotClassified

DashIdle ==
    /\ pc = "idle"
    /\ minutes = 5
    /\ sess_conn = "conn"
    /\ df = <<>>
    /\ trace_log = LogUnset
    /\ cutoff = CutoffUnset
    /\ groups = <<>>
    /\ matched_indices = {}
    /\ unmatched = <<>>
    /\ flat = <<>>
    /\ view = "none"

\* the handles in the order _new_connection returns them
ConnNames == <<"conn", "conn2", "conn3", "conn4", "conn5">>

\* no get_conn call was made yet
ConnIdle ==
    /\ conn_created = 0
    /\ conn_alive = {}
    /\ conn_close_called = {}
    /\ conn_closed = {}
    /\ conn_calls = 0
    /\ conn_ret = "none"

\* line 203: the sidebar's get_conn call made the session's first connection
ConnObtained ==
    /\ conn_created = 1
    /\ conn_alive = {ConnNames[1]}
    /\ conn_close_called = {}
    /\ conn_closed = {}
    /\ conn_calls = 1
    /\ conn_ret = ConnNames[1]

DrvIdle ==
    /\ dpc = "idle"
    /\ qi = 0
    /\ agent = "absent"
    /\ deletions = 0
    /\ status = NoValue
    /\ iteration = 0
    /\ stdout = <<>>
    /\ sent_after_delete = FALSE

\* ------------------------------------------------------------------
\* Classifier run
\* ------------------------------------------------------------------
InitClassify ==
    /\ sql_text \in TextsUpTo(MaxFrags)
    /\ clf = NotClassified
    /\ trace_file = NoFile
    /\ DashIdle
    /\ DrvIdle
    /\ ConnIdle

\* lines 144-166 (and 388-391: the triple is what the columns are read from)
Classify ==
    /\ ~clf.called
    /\ clf' = ClassifiedAs(classify(sql_text))
    /\ UNCHANGED <<sql_text, trace_file, dashVars, drvVars, connVars>>

NextClassify == Classify

SpecClassify == InitClassify /\ [][NextClassify]_vars

\* ------------------------------------------------------------------
\* Dashboard run: the script from the action buttons to the query details.
\* The sidebar has already obtained a connection (line 203).
\* ------------------------------------------------------------------
Init ==
    /\ pc = "buttons"
    /\ minutes \in MinuteChoices
    /\ sess_conn = "conn"
    /\ trace_file \in TraceFiles
    /\ df = <<>>
    /\ trace_log = LogUnset
    /\ cutoff = CutoffUnset
    /\ groups = <<>>
    /\ matched_indices = {}
    /\ unmatched = <<>>
    /\ flat = <<>>
    /\ view = "none"
    /\ ClfIdle
    /\ DrvIdle
    /\ ConnObtained

\* lines 265-277: the "Pulisci Query Store" button; when it was pressed the
\* trace log is removed, unless an earlier statement of the try block raised
ClearQueryStore ==
    /\ pc = "buttons"
    /\ \E clear_qs \in BOOLEAN, raised \in BOOLEAN :
           trace_file' = IF clear_qs /\ ~raised THEN NoFile ELSE trace_file
    /\ pc' = "load"
    /\ UNCHANGED <<minutes, sess_conn, df, trace_log, cutoff, groups,
                   matched_indices, unmatched, flat, view, clfVars, drvVars, connVars>>

\* lines 369-378: the load raises
LoadFails ==
    /\ pc = "load"
    /\ sess_conn' = "None"
    /\ pc' = "stopped"
    /\ UNCHANGED <<minutes, trace_file, df, trace_log, cutoff, groups,
                   matched_indices, unmatched, flat, view, clfVars, drvVars, connVars>>

\* lines 369-385: the load returns a frame; an empty one stops the script
LoadQueries ==
    /\ pc = "load"
    /\ \E d \in DataFrames :
           /\ df' = d
           /\ pc' = IF Empty(d) THEN "stopped" ELSE "filter"
    /\ UNCHANGED <<minutes, sess_conn, trace_file, trace_log, cutoff, groups,
                   matched_indices, unmatched, flat, view, clfVars, drvVars, connVars>>

\* lines 388-404: classify, filter by the sidebar's choices, reset the index;
\* an empty result stops the script
ClassifyAndFilter ==
    /\ pc = "filter"
    /\ LET cdf == Classified(df)
       IN  \E show_sys \in BOOLEAN, sel_types \in SelTypesChoices,
              sel_tables \in SelTablesChoices :
               LET kept == FilterFrame(cdf, show_sys, sel_types, sel_tables)
               IN  /\ df' = kept
                   /\ pc' = IF Empty(kept) THEN "stopped" ELSE "trace"
    /\ UNCHANGED <<minutes, sess_conn, trace_file, trace_log, cutoff, groups,
                   matched_indices, unmatched, flat, view, clfVars, drvVars, connVars>>

\* line 455
LoadTraceLog ==
    /\ pc = "trace"
    /\ trace_log' = load_trace_log(trace_file)
    /\ pc' = "view"
    /\ UNCHANGED <<minutes, sess_conn, trace_file, df, cutoff, groups,
                   matched_indices, unmatched, flat, view, clfVars, drvVars, connVars>>

\* line 457 (both loaders return the column last_execution_time)
GroupedGuard == Truthy(trace_log) /\ ~Empty(df)

\* lines 457-542: the cutoff filter, the grouping loop, the unmatched section
GroupedView ==
    /\ pc = "view"
    /\ GroupedGuard
    /\ \E now \in Nows :
           LET c == now - minutes * 60
               log == CutoffFilter(trace_log.data, c)
               gs == GroupingLoop(df, log)
           IN  /\ cutoff' = CutoffAt(c)
               /\ trace_log' = LogOf(log)
               /\ groups' = gs
               /\ matched_indices' = MatchedIndices(gs)
               /\ unmatched' = Unmatched(df, MatchedIndices(gs))
    /\ view' = "grouped"
    /\ pc' = "done"
    /\ UNCHANGED <<minutes, sess_conn, trace_file, df, flat, clfVars, drvVars, connVars>>

\* lines 544-578
FlatView ==
    /\ pc = "view"
    /\ ~GroupedGuard
    /\ flat' = FlatRows(df)
    /\ view' = "flat"
    /\ pc' = "done"
    /\ UNCHANGED <<minutes, sess_conn, trace_file, df, trace_log, cutoff, groups,
                   matched_indices, unmatched, clfVars, drvVars, connVars>>

Next ==
    \/ ClearQueryStore
    \/ LoadFails
    \/ LoadQueries
    \/ ClassifyAndFilter
    \/ LoadTraceLog
    \/ GroupedView
    \/ FlatView

Spec == Init /\ [][Next]_vars

\* ------------------------------------------------------------------
\* Driver run: main of test_agent.py.  trace_file is the trace_log.json the
\* dashboard reads; the run starts with the file as an earlier run left it.
\* ------------------------------------------------------------------
DriverFiles ==
    {NoFile, FileOf(<<>>), FileOf(<<[index |-> 1, start_dt |-> 100, end_dt |-> 130]>>)}

InitDriver ==
    /\ dpc = "start"
    /\ qi = 0
    /\ agent = "absent"
    /\ deletions = 0
    /\ status = NoValue
    /\ iteration = 0
    /\ stdout = <<>>
    /\ sent_after_delete = FALSE
    /\ trace_file \in DriverFiles
    /\ ClfIdle
    /\ DashIdle
    /\ ConnIdle

\* lines 50-62, 158: a missing setting ends the script with sys.exit(1)
ValidateConfig ==
    /\ dpc = "start"
    /\ \E ok \in BOOLEAN : dpc' = IF ok THEN "create" ELSE "exited"
    /\ UNCHANGED <<qi, agent, deletions, status, iteration, stdout,
                   sent_after_delete, trace_file, clfVars, dashVars, connVars>>

\* lines 160-173, 65-90: the agent is created, or the call raises before the
\* try block is entered
CreateAgent ==
    /\ dpc = "create"
    /\ \E ok \in BOOLEAN :
           IF ok
           THEN agent' = "created" /\ qi' = 1 /\ dpc' = "query"
           ELSE agent' = agent /\ qi' = qi /\ dpc' = "raised"
    /\ UNCHANGED <<deletions, status, iteration, stdout, sent_after_delete,
                   trace_file, clfVars, dashVars, connVars>>

\* lines 176-184, 95-113: the next query's thread, message and run are
\* created; any of the calls may raise, which leaves the loop for finally
StartQuery ==
    /\ dpc = "query"
    /\ qi <= NumTestQueries
    /\ \/ /\ \E st \in RunStatuses : status' = st
          /\ iteration' = 0
          /\ sent_after_delete' = (sent_after_delete \/ agent = "deleted")
          /\ dpc' = "poll"
       \/ /\ dpc' = "finally_raised"
          /\ UNCHANGED <<status, iteration, sent_after_delete>>
    /\ UNCHANGED <<qi, agent, deletions, stdout, trace_file, clfVars, dashVars, connVars>>

\* lines 114-137: one iteration of the polling loop (the approvals it may
\* submit change nothing that is modelled); runs.get or the submit may raise
Poll ==
    /\ dpc = "poll"
    /\ status \in ActiveStatuses
    /\ iteration < max_iterations
    /\ \/ /\ \E st \in RunStatuses : status' = st
          /\ iteration' = iteration + 1
          /\ dpc' = dpc
       \/ /\ dpc' = "finally_raised"
          /\ UNCHANGED <<status, iteration>>
    /\ UNCHANGED <<qi, agent, deletions, stdout, sent_after_delete,
                   trace_file, clfVars, dashVars, connVars>>

\* a variant of the return value without the test for a failed run
ResponsesFailedUnchecked(st) == {"response", "none"}

\* what run_query returns once the loop is left (lines 139-154): None for a
\* failed run, else the last assistant text found, None if there is none
Responses(st) == IF st = "failed" THEN {"none"} ELSE {"response", "none"}

\* lines 139-154, 184-188: run_query returns, main prints the outcome and
\* goes on with the next query, or to finally after the last one
FinishQuery ==
    /\ dpc = "poll"
    /\ ~(status \in ActiveStatuses /\ iteration < max_iterations)
    /\ \/ /\ \E r \in Responses(status) : stdout' = Append(stdout, r)
          /\ qi' = qi + 1
          /\ dpc' = IF qi = NumTestQueries THEN "finally" ELSE "query"
       \/ /\ status # "failed"
          /\ dpc' = "finally_raised"
          /\ UNCHANGED <<qi, stdout>>
    /\ UNCHANGED <<agent, deletions, status, iteration, sent_after_delete,
                   trace_file, clfVars, dashVars, connVars>>

\* a variant of the deletion placed after the loop, outside any finally: an
\* error raised by a query ends main without the call
DeleteAgentAfterLoopOnly ==
    /\ dpc \in {"finally", "finally_raised"}
    /\ IF dpc = "finally"
       THEN /\ deletions' = deletions + 1
            /\ \E ok \in BOOLEAN :
                   IF ok THEN agent' = "deleted" /\ dpc' = "done"
                   ELSE agent' = agent /\ dpc' = "raised"
       ELSE /\ dpc' = "raised"
            /\ UNCHANGED <<agent, deletions>>
    /\ UNCHANGED <<qi, status, iteration, stdout, sent_after_delete,
                   trace_file, clfVars, dashVars, connVars>>

\* lines 190-192: finally; delete_agent may itself raise
DeleteAgent ==
    /\ dpc \in {"finally", "finally_raised"}
    /\ deletions' = deletions + 1
    /\ \E ok \in BOOLEAN :
           IF ok
           THEN /\ agent' = "deleted"
                /\ dpc' = IF dpc = "finally" THEN "done" ELSE "raised"
           ELSE /\ agent' = agent
                /\ dpc' = "raised"
    /\ UNCHANGED <<qi, status, iteration, stdout, sent_after_delete,
                   trace_file, clfVars, dashVars, connVars>>

NextDriver ==
    \/ ValidateConfig
    \/ CreateAgent
    \/ StartQuery
    \/ Poll
    \/ FinishQuery
    \/ DeleteAgent

SpecDriver == InitDriver /\ [][NextDriver]_vars

\* ------------------------------------------------------------------
\* Session run: get_conn over the reruns of the script in one session
\* ------------------------------------------------------------------
MaxConns == 3
MaxCalls == 4

InitConn ==
    /\ sess_conn = "None"
    /\ ConnIdle
    /\ pc = "idle"
    /\ minutes = 5
    /\ df = <<>>
    /\ trace_log = LogUnset
    /\ cutoff = CutoffUnset
    /\ groups = <<>>
    /\ matched_indices = {}
    /\ unmatched = <<>>
    /\ flat = <<>>
    /\ view = "none"
    /\ trace_file = NoFile
    /\ ClfIdle
    /\ DrvIdle

\* a variant of the probe that trusts the cached handle
ProbeAlwaysPasses(c) == TRUE

\* lines 70-74: cursor, SELECT 1, close of the cursor raise nothing
ProbePasses(c) == c \in conn_alive

\* lines 66-81: the cached handle is returned when it passes the probe;
\* otherwise close() is called on it, errors ignored, and a new connection is
\* made, stored and returned, unless _new_connection raises
GetConn ==
    /\ conn_calls < MaxCalls
    /\ conn_calls' = conn_calls + 1
    /\ IF sess_conn # "None" /\ ProbePasses(sess_conn)
       THEN /\ conn_ret' = sess_conn
            /\ UNCHANGED <<sess_conn, conn_created, conn_alive,
                           conn_close_called, conn_closed>>
       ELSE \E close_ok \in BOOLEAN, new_ok \in BOOLEAN :
              LET stale == IF sess_conn = "None" THEN {} ELSE {sess_conn}
                  made == new_ok /\ conn_created < MaxConns
                  h == ConnNames[conn_created + 1]
              IN  /\ conn_close_called' = conn_close_called \cup stale
                  /\ conn_closed' =
                        IF close_ok THEN conn_closed \cup stale ELSE conn_closed
                  /\ conn_created' = IF made THEN conn_created + 1 ELSE conn_created
                  /\ conn_alive' =
                        (IF close_ok THEN conn_alive \ stale ELSE conn_alive)
                            \cup (IF made THEN {h} ELSE {})
                  /\ sess_conn' = IF made THEN h ELSE sess_conn
                  /\ conn_ret' = IF made THEN h ELSE "raised"
    /\ UNCHANGED <<pc, minutes, trace_file, df, trace_log, cutoff, groups,
                   matched_indices, unmatched, flat, view, clfVars, drvVars>>

\* a connection stops working (server restart, network loss, token expiry)
ConnDies ==
    /\ \E c \in conn_alive : conn_alive' = conn_alive \ {c}
    /\ UNCHANGED <<sess_conn, conn_created, conn_close_called, conn_closed,
                   conn_calls, conn_ret, pc, minutes, trace_file, df, trace_log,
                   cutoff, groups, matched_indices, unmatched, flat, view,
                   clfVars, drvVars>>

\* lines 375-378: the load of a run that obtained a connection raises
LoadErrorResets ==
    /\ conn_ret \notin {"none", "raised"}
    /\ sess_conn # "None"
    /\ sess_conn' = "None"
    /\ UNCHANGED <<conn_created, conn_alive, conn_close_called, conn_closed,
                   conn_calls, conn_ret, pc, minutes, trace_file, df, trace_log,
                   cutoff, groups, matched_indices, unmatched, flat, view,
                   clfVars, drvVars>>

NextConn ==
    \/ GetConn
    \/ ConnDies
    \/ LoadErrorResets

SpecConn == InitConn /\ [][NextConn]_vars

\* ------------------------------------------------------------------
\* Properties of the dashboard run (checked under Spec)
\* ------------------------------------------------------------------
\* the grouped view has been rendered
Grouped == pc = "done" /\ view = "grouped"

\* the timestamp of row k of the frame
Ts(k) == df[k].last_execution_time

\* the timestamp lies in the padded window of entry e, bounds included
InPadded(t, e) == t >= e.start_dt - BUFFER_SEC /\ t <= e.end_dt + BUFFER_SEC

\* number of places of the sequence q that hold k
Places(q, k) == Cardinality({j \in 1..Len(q) : q[j] = k})

\* number of listings of row k over all groups and the unmatched section
Listings(k) ==
    LET S == {<<i, j>> \in (1..Len(groups)) \X (1..Len(df)) :
                 j <= Len(groups[i]) /\ groups[i][j] = k}
    IN  Cardinality(S) + Places(unmatched, k)

\* the entries of the file that end at or after the cutoff, in file order
Surviving == SelectSeq(trace_file.data, LAMBDA e : e.end_dt >= cutoff.at)

AllRows == [k \in 1..Len(df) |-> k]

\* C1 as stated: after the correlation pass every statement is listed
\* exactly once over the interactions' groups and the unmatched group.
C1_ExactlyOneGroup ==
    Grouped => \A k \in 1..Len(df) : Listings(k) = 1

\* C1 (amended): after the correlation pass no statement is lost and none is
\* listed twice within one group: a statement is in the unmatched group
\* exactly when it is in no interaction's group, and it is listed once there;
\* a statement covered by several windows is in each of their groups.
C1_NoLossOncePerGroup ==
    Grouped =>
        /\ \A i \in 1..Len(groups) : SeqRange(groups[i]) \subseteq 1..Len(df)
        /\ SeqRange(unmatched) \subseteq 1..Len(df)
        /\ \A k \in 1..Len(df) :
              /\ \A i \in 1..Len(groups) : Places(groups[i], k) <= 1
              /\ Places(unmatched, k) <= 1
              /\ (Places(unmatched, k) = 1) <=>
                    (\A i \in 1..Len(groups) : Places(groups[i], k) = 0)

\* a statement is listed in the groups of two interactions
C1_Witness ==
    /\ Grouped
    /\ \E k \in 1..Len(df) : \E i, j \in 1..Len(groups) :
          i < j /\ Places(groups[i], k) = 1 /\ Places(groups[j], k) = 1
    /\ unmatched # <<>>

\* C2 as stated: when the padded windows of interactions A and B, A before
\* B, both contain a statement's timestamp, the statement is in A's group
\* and not in B's.
C2_FirstMatchWins ==
    Grouped =>
        \A k \in 1..Len(df) : \A a, b \in 1..Len(groups) :
            (a < b /\ InPadded(Ts(k), trace_log.data[a])
                   /\ InPadded(Ts(k), trace_log.data[b]))
            => (k \in SeqRange(groups[a]) /\ k \notin SeqRange(groups[b]))

\* C2 (amended): when the padded windows of interactions A and B, A before
\* B, both contain a statement's timestamp, the statement is in A's group
\* and in B's group as well.
C2_EveryMatchListed ==
    Grouped =>
        \A k \in 1..Len(df) : \A a, b \in 1..Len(groups) :
            (a < b /\ InPadded(Ts(k), trace_log.data[a])
                   /\ InPadded(Ts(k), trace_log.data[b]))
            => (k \in SeqRange(groups[a]) /\ k \in SeqRange(groups[b]))

\* two different windows, the earlier entry's and the later entry's, contain
\* the timestamp of one statement
C2_Witness ==
    /\ Grouped
    /\ \E k \in 1..Len(df) : \E a, b \in 1..Len(groups) :
          /\ a < b
          /\ trace_log.data[a].start_dt # trace_log.data[b].start_dt
          /\ InPadded(Ts(k), trace_log.data[a])
          /\ InPadded(Ts(k), trace_log.data[b])

\* C3: after the correlation pass the unmatched group holds exactly the
\* statements whose timestamp lies in no padded window of an interaction
\* that survived the cutoff.
C3_UnmatchedIsOutsideAll ==
    Grouped =>
        \A k \in 1..Len(df) :
            (k \in SeqRange(unmatched)) <=>
                (\A n \in 1..Len(Surviving) : ~InPadded(Ts(k), Surviving[n]))

\* one statement is unmatched although the window of an entry the cutoff
\* removed contains it, and another statement is matched
C3_Witness ==
    /\ Grouped
    /\ \E k \in SeqRange(unmatched) : \E n \in 1..Len(trace_file.data) :
          InPadded(Ts(k), trace_file.data[n])
    /\ \E k \in 1..Len(df) : k \notin SeqRange(unmatched)

\* C4: the group of an interaction holds exactly the statements with
\* startTime - padding <= timestamp <= endTime + padding, the same padding
\* on both ends and both bounds included.
C4_PaddedWindowInclusive ==
    Grouped =>
        \A i \in 1..Len(groups) : \A k \in 1..Len(df) :
            (k \in SeqRange(groups[i])) <=>
                /\ Ts(k) >= trace_log.data[i].start_dt - BUFFER_SEC
                /\ Ts(k) <= trace_log.data[i].end_dt + BUFFER_SEC

\* a group holds a statement exactly at its window's lower edge while the
\* statement just above the upper edge is left out
C4_Witness ==
    /\ Grouped
    /\ \E i \in 1..Len(groups) : \E k, m \in 1..Len(df) :
          /\ Ts(k) = trace_log.data[i].start_dt - BUFFER_SEC
          /\ k \in SeqRange(groups[i])
          /\ Ts(m) = trace_log.data[i].end_dt + BUFFER_SEC + 1
          /\ m \notin SeqRange(groups[i])

\* the upper edge is included and the instant just below the lower edge is not
C4_WitnessUpper ==
    /\ Grouped
    /\ \E i \in 1..Len(groups) : \E k, m \in 1..Len(df) :
          /\ Ts(k) = trace_log.data[i].end_dt + BUFFER_SEC
          /\ k \in SeqRange(groups[i])
          /\ Ts(m) = trace_log.data[i].start_dt - BUFFER_SEC - 1
          /\ m \notin SeqRange(groups[i])

\* the places of q run through the frame in its order
Ascending(q) == \A i, j \in 1..Len(q) : i < j => q[i] < q[j]

\* C5: within every interaction's group and within the unmatched group the
\* statements keep the relative order they have in the input frame.
C5_OrderPreserved ==
    Grouped =>
        /\ \A i \in 1..Len(groups) : Ascending(groups[i])
        /\ Ascending(unmatched)

\* a group holds two statements of different timestamps
C5_Witness ==
    /\ Grouped
    /\ \E i \in 1..Len(groups) :
          Len(groups[i]) >= 2 /\ Ts(groups[i][1]) # Ts(groups[i][2])

\* no interaction: no file, an empty file, or every entry before the cutoff
ZeroInteractions ==
    \/ ~trace_file.exists
    \/ trace_file.data = <<>>
    \/ cutoff.set /\ \A n \in 1..Len(trace_file.data) :
                        trace_file.data[n].end_dt < cutoff.at

\* the statements listed under no interaction: the unmatched section of the
\* grouped view, the listing of the flat view
Residual == IF view = "grouped" THEN unmatched ELSE flat

C6_WitnessFlat ==
    /\ pc = "done" /\ view = "flat"
    /\ Len(flat) = 2
    /\ Ts(1) # Ts(2)

\* the script run has ended
Ended == pc \in {"done", "stopped"}

\* C7 as stated: with zero statements and a non-empty interaction list every
\* interaction gets an empty group and the unmatched group is empty.
C7_EmptyGroupPerInteraction ==
    (Ended /\ sess_conn = "conn" /\ df = <<>> /\ trace_file.data # <<>>) =>
        /\ view = "grouped"
        /\ Len(groups) >= 1
        /\ \A i \in 1..Len(groups) : groups[i] = <<>>
        /\ unmatched = <<>>

\* C7 (amended): with zero statements (none loaded, or all of them removed by
\* the sidebar filters) the script stops before the correlation: no
\* interaction gets a group, not even an empty one, and no view is rendered.
C7_StopsBeforeCorrelation ==
    (pc \notin {"buttons", "load"} /\ df = <<>>) =>
        /\ pc = "stopped"
        /\ view = "none"
        /\ trace_log = LogUnset
        /\ groups = <<>>
        /\ unmatched = <<>>
        /\ flat = <<>>

\* the load succeeded, no statement is left and the log holds an entry
C7_Witness ==
    /\ pc = "stopped"
    /\ sess_conn = "conn"
    /\ df = <<>>
    /\ trace_file.data # <<>>

\* C8: the cutoff filter runs before the grouping loop: the groups are those
\* of the entries ending at or after the cutoff, one each and in file order,
\* and the loop applies no cutoff of its own: a statement older than the
\* cutoff is still grouped under every surviving entry whose window holds it.
C8_CutoffBeforeLoop ==
    Grouped =>
        /\ cutoff.set
        /\ trace_log = LogOf(Surviving)
        /\ Len(groups) = Len(Surviving)
        /\ \A i \in 1..Len(Surviving) : \A k \in 1..Len(df) :
              (Ts(k) < cutoff.at /\ InPadded(Ts(k), Surviving[i]))
              => k \in SeqRange(groups[i])

\* one entry ends before the cutoff, one exactly at it, and a statement older
\* than the cutoff is in the surviving entry's group
C8_Witness ==
    /\ Grouped
    /\ \E n \in 1..Len(trace_file.data) : trace_file.data[n].end_dt < cutoff.at
    /\ \E i \in 1..Len(groups) :
          /\ trace_log.data[i].end_dt = cutoff.at
          /\ \E k \in SeqRange(groups[i]) : Ts(k) < cutoff.at

\* ------------------------------------------------------------------
\* Properties of the driver run (checked under SpecDriver)
\* ------------------------------------------------------------------
\* C9: whenever a round trip with the agent completes, the driver appends one
\* record to trace_log.json, after the records already there.
C9_LogAppendedPerRoundTrip ==
    [][(stdout' = Append(stdout, "response")) =>
          /\ trace_file'.exists
          /\ Len(trace_file'.data) = Len(trace_file.data) + 1
          /\ SubSeq(trace_file'.data, 1, Len(trace_file.data)) = trace_file.data
          /\ \A n \in 1..Len(trace_file.data) :
                trace_file.data[n].index <= trace_file'.data[Len(trace_file'.data)].index
      ]_vars

\* ------------------------------------------------------------------
\* Properties of the classifier (checked under SpecClassify)
\* ------------------------------------------------------------------
\* number of leading whitespace characters of the text
Lead(t) ==
    IF \A i \in 1..Len(t) : t[i] \in Whitespace THEN Len(t)
    ELSE (CHOOSE i \in 1..Len(t) :
             t[i] \notin Whitespace /\ \A j \in 1..(i - 1) : t[j] \in Whitespace) - 1

\* after its leading whitespace the text reads keyword k, in any letter case
LeadsWith(t, k) ==
    /\ Len(t) >= Lead(t) + Len(Keywords[k])
    /\ \A j \in 1..Len(Keywords[k]) : UpperChar(t[Lead(t) + j]) = Keywords[k][j]

\* C10: the kind is the first keyword, in the order SELECT, INSERT, UPDATE,
\* DELETE, EXEC, that the trimmed upper-cased text starts with, whatever
\* keywords occur later in the text, and OTHER when it starts with none.
C10_KindIsLeadingKeyword ==
    clf.called =>
        LET leading == {k \in 1..5 : LeadsWith(sql_text, k)}
        IN  IF leading = {}
            THEN clf.value[1] = "OTHER"
            ELSE clf.value[1] =
                    KeywordName[CHOOSE k \in leading : \A j \in leading : k <= j]

\* a text with leading whitespace that reads Select and then INSERT is SELECT
C10_Witness ==
    /\ clf.called
    /\ Lead(sql_text) > 0
    /\ LeadsWith(sql_text, 1)
    /\ Contains(Upper(sql_text), Keywords[2])
    /\ clf.value[1] = "SELECT"

\* storage-object name k of the mapping occurs in the text, letter case ignored
Occurs(t, k) ==
    \E i \in 0..(Len(t) - Len(TableNames[k])) :
        \A j \in 1..Len(TableNames[k]) :
            LowerChar(t[i + j]) = LowerChar(TableNames[k][j])

\* the positions of the mapping whose storage-object name occurs, in the
\* mapping's declared order
Occurring(t) == SelectSeq(<<1, 2, 3, 4, 5>>, LAMBDA k : Occurs(t, k))

\* C11 as stated: the referenced-entities label is the comma-joined list of
\* the domain-entity names of the storage objects occurring in the text, in
\* the mapping's order, and the placeholder when none occurs.
C11_LabelListsEntityNames ==
    clf.called =>
        LET occ == Occurring(sql_text)
        IN  clf.value[2] =
                IF occ = <<>> THEN Dash
                ELSE Join([i \in 1..Len(occ) |-> EntityNames[occ[i]]], CommaSpace)

\* C11 (amended): the label is the comma-joined list of the storage-object
\* names themselves (the mapping's keys, as the mapping spells them) that
\* occur case-insensitively in the text, in the mapping's declared order,
\* and the placeholder when none occurs.
C11_LabelListsTableNames ==
    clf.called =>
        LET occ == Occurring(sql_text)
        IN  clf.value[2] =
                IF occ = <<>> THEN Dash
                ELSE Join([i \in 1..Len(occ) |-> TableNames[occ[i]]], CommaSpace)

\* the text names OrderItems before Products, in other letter cases, and the
\* label lists Products first
C11_Witness ==
    /\ clf.called
    /\ Occurring(sql_text) = <<1, 5>>
    /\ \E i, j \in 1..Len(sql_text) :
          /\ i < j
          /\ SubSeq(sql_text, i, i + 9) = <<"o","r","d","e","r","I","t","e","m","s">>
          /\ SubSeq(sql_text, j, j + 7) = <<"P","R","O","D","U","C","T","S">>
    /\ clf.value[2] = TableNames[1] \o CommaSpace \o TableNames[5]

\* the verb(entity, ...) rendering for a kind with a verb
Rendered(kind, occ) ==
    McpVerb(kind) \o <<"(">>
        \o Join([i \in 1..Len(occ) |-> EntityNames[occ[i]]], CommaSpace) \o <<")">>

\* C12: the inferred operation is verb(entity1, entity2, ...), entities in
\* mapping order and the verb fixed by the kind, exactly when an entity
\* matched and the kind is SELECT, INSERT, UPDATE or DELETE; it is
\* "describe_entities?" when the kind is SELECT and no entity matched; it is
\* the placeholder in every other case.
C12_InferredOperation ==
    clf.called =>
        LET occ == Occurring(sql_text)
            kind == clf.value[1]
        IN  /\ McpVerb("SELECT") = <<"r","e","a","d","_","r","e","c","o","r","d","s">>
            /\ McpVerb("INSERT") = <<"c","r","e","a","t","e","_","r","e","c","o","r","d">>
            /\ McpVerb("UPDATE") = <<"u","p","d","a","t","e","_","r","e","c","o","r","d">>
            /\ McpVerb("DELETE") = <<"d","e","l","e","t","e","_","r","e","c","o","r","d">>
            /\ clf.value[3] =
                  IF occ # <<>> /\ kind \in {"SELECT", "INSERT", "UPDATE", "DELETE"}
                  THEN Rendered(kind, occ)
                  ELSE IF kind = "SELECT"
                  THEN <<"d","e","s","c","r","i","b","e","_",
                         "e","n","t","i","t","i","e","s","?">>
                  ELSE <<"EMDASH">>

\* an update naming two storage objects is rendered with both entities
C12_Witness ==
    /\ clf.called
    /\ clf.value[1] = "UPDATE"
    /\ Occurring(sql_text) = <<1, 5>>
    /\ clf.value[3] =
          <<"u","p","d","a","t","e","_","r","e","c","o","r","d","(",
            "P","r","o","d","u","c","t",",", " ",
            "O","r","d","e","r","I","t","e","m",")">>

\* an EXEC without an entity gets the placeholder, not the marker
C12_WitnessPlaceholder ==
    /\ clf.called
    /\ clf.value[1] = "EXEC"
    /\ Occurring(sql_text) = <<>>
    /\ clf.value[3] = Dash

\* ------------------------------------------------------------------
\* Properties of get_conn (checked under SpecConn)
\* ------------------------------------------------------------------
\* the step is a call of get_conn
IsGetConnCall == conn_calls' = conn_calls + 1

\* the call finds a cached handle that fails the probe
StaleCached == sess_conn # "None" /\ sess_conn \notin conn_alive

\* C13 as stated: a handle get_conn returns has just passed the probe or was
\* created in the call, and a cached handle that fails the probe is closed
\* and replaced in the session state and is not returned.
C13_StaleClosedAndReplaced ==
    [][IsGetConnCall =>
          /\ (conn_ret' # "raised") =>
                \/ conn_ret' = sess_conn /\ sess_conn \in conn_alive
                \/ conn_ret' = ConnNames[conn_created + 1]
                      /\ conn_created' = conn_created + 1
          /\ StaleCached =>
                /\ conn_ret' # sess_conn
                /\ sess_conn \in conn_closed'
                /\ sess_conn' \notin {"None", sess_conn}
      ]_vars

\* C13 (amended): a handle get_conn returns has just passed the probe or was
\* created in the call, and it is the handle the session state then holds; on
\* a cached handle that fails the probe close() is called, its errors
\* ignored, and the handle is not returned; it is replaced in the session
\* state when the new connection is made, and stays there when
\* _new_connection raises, in which case get_conn returns nothing.
C13_LiveOrNothing ==
    [][IsGetConnCall =>
          /\ (conn_ret' # "raised") =>
                /\ conn_ret' = sess_conn'
                /\ conn_ret' \in conn_alive'
                /\ \/ conn_ret' = sess_conn /\ sess_conn \in conn_alive
                   \/ conn_ret' = ConnNames[conn_created + 1]
                         /\ conn_created' = conn_created + 1
          /\ StaleCached =>
                /\ conn_ret' # sess_conn
                /\ sess_conn \in conn_close_called'
                /\ (conn_ret' # "raised") => sess_conn' \notin {"None", sess_conn}
                /\ (conn_ret' = "raised") => sess_conn' = sess_conn
      ]_vars

\* the first connection failed its probe, close() was called on it, and the
\* second connection replaced it and was returned
C13_Witness ==
    /\ conn_ret = ConnNames[2]
    /\ sess_conn = ConnNames[2]
    /\ ConnNames[1] \in conn_close_called
    /\ ConnNames[1] \notin conn_alive
    /\ conn_calls >= 2

\* ------------------------------------------------------------------
\* Properties of run_query and main (checked under SpecDriver)
\* ------------------------------------------------------------------
\* the run is unfinished
Unfinished == status \in {"queued", "in_progress", "requires_action"}

\* C14: the polling loop terminates: every step that stays in the loop is a
\* poll of an unfinished run that raises the counter by one, and the counter
\* never passes 120; the loop is left as soon as the run is finished; the
\* value returned is None for a failed run, and after 120 polls of a run
\* still unfinished it is the last assistant text found, or None.
C14_PollingTerminates ==
    [][/\ (dpc = "poll" /\ dpc' = "poll") =>
              /\ Unfinished
              /\ iteration < 120
              /\ iteration' = iteration + 1
       /\ iteration' \in 0..120
       /\ (dpc = "poll" /\ ~Unfinished) => dpc' # "poll"
       /\ (stdout' # stdout) =>
              /\ dpc = "poll"
              /\ ~Unfinished \/ iteration = 120
              /\ \E r \in {"response", "none"} :
                    /\ stdout' = Append(stdout, r)
                    /\ (status = "failed") => r = "none"
      ]_vars

\* 120 polls were used up with the run still unfinished and run_query
\* returned an assistant text
C14_Witness ==
    /\ iteration = 120
    /\ Unfinished
    /\ dpc = "query"
    /\ stdout # <<>>
    /\ stdout[Len(stdout)] = "response"

\* main has ended after the agent was created
MainEndedWithAgent == dpc \in {"done", "raised"} /\ agent # "absent"

====
